---- MODULE Spec2Model ----
(***************************************************************************)
(* Asynchronous task engine of Halo-Docs-AI: the ProcessingTask records,   *)
(* the Celery worker pipelines of apps/api/tasks.py, update_task_status,   *)
(* the generation call of services/vertex_ai_tools.py and the status       *)
(* polling endpoint of routers/task_status.py.                             *)
(*                                                                         *)
(* A pipeline run is split at its database commits: fetch, mark            *)
(* PROCESSING, the body up to the COMPLETED commit, the notification, and  *)
(* the except handler.  Download, extraction and generation touch no       *)
(* shared state, so they are part of the body step; their outcomes are     *)
(* inputs of that step.                                                    *)
(***************************************************************************)
EXTENDS Integers, FiniteSets, Sequences, TLC

\* ------------------------------------------------------------------ bounds
MaxOps == 2
\* chunks one streamed backend response carries at most
MaxFragments == 2
\* times the clock of the image-model cache advances
MaxTicks == 2

\* --------------------------------------------------------------- constants
Workers == {"w1", "w2"}
TaskIds == {"t1", "t2"}
MissingId == "t0"
BadId == "not-a-uuid"
Users == {"u1", "u2"}

PENDING == "pending"
PROCESSING == "processing"
COMPLETED == "completed"
FAILED == "failed"
TaskStatus == {PENDING, PROCESSING, COMPLETED, FAILED}
Terminal == {COMPLETED, FAILED}

Pipelines == {"run_ai_summarization", "run_ai_translation",
              "run_content_improvement", "run_ai_review",
              "run_text_extraction", "run_ai_redaction",
              "run_resume_optimization", "run_proposal_generation",
              "run_tagline_generation"}

\* Column values.  None is SQL NULL / Python None.
None == "<None>"
NullData == [kind |-> "null"]
EmptyDict == [kind |-> "empty"]
Params == [kind |-> "params"]
NoGen == "<no generation>"
Output(text, full_text) ==
    [kind |-> "output", text |-> text, full_text |-> full_text]

\* Python truthiness of a result_data / error_message value
TruthyData(d) == d.kind \notin {"null", "empty"}
TruthyMsg(m) == m \notin {None, ""}

\* Texts
SoftText == "SoftTimeLimitExceeded()"
S3Text == "An error occurred (NoSuchKey) when calling the GetObject operation"
DbText == "database error"
NoTextMsg == "No text could be extracted from the PDF"
ExtractErrs == {""}
BackendText == "generated text"
MockText == "This is a mock response for: ... (Vertex AI API key not configured)"
DocTexts == {"", "document text"}

\* user_id of the rows: u1 owns both tasks, u2 owns none
OwnerOf(t) == "u1"
CreatedAt(t) == IF t = "t1" THEN 1 ELSE 2
\* result_data at submission: t1 was submitted with parameters, t2 without
SubmittedData(t) == IF t = "t1" THEN Params ELSE NullData

\* ------------------------------------------------------ pipeline variants
\* The nine pipelines differ in three places only; a run keeps the variant of
\* its pipeline.  run_ai_summarization wraps both notification calls in
\* try/except; run_text_extraction makes no generation call and raises when
\* nothing could be extracted; the other seven share one body.
Variant(p) ==
    CASE p = "run_ai_summarization" -> "guarded"
      [] p = "run_text_extraction" -> "extraction"
      [] OTHER -> "plain"
Variants == {Variant(p) : p \in Pipelines}
CallsGeneration(v) == v # "extraction"
ChecksEmptyText(v) == v = "extraction"
GuardsNotify(v) == v = "guarded"

\* ---------------------------------------------------------- generation
\* What the HTTP call does: a 200 response with candidates, a non-200 status,
\* a 200 response without candidates, an exception of the client, or the
\* soft time limit delivered while the call is awaited.
BackendOutcomes == {"ok", "non200", "no_candidates", "network_exception",
                    "soft_limit"}
BackendFailures == BackendOutcomes \ {"ok"}

\* VertexAIToolsService.generate_text: the mock text without an API key,
\* the backend text on a 200 response with candidates, and the mock text
\* for whatever is raised inside its try block (the soft limit included,
\* SoftTimeLimitExceeded being an Exception).  It never raises.
GenerateTextRaising(mock, backend) ==
    IF mock THEN [raised |-> FALSE, text |-> MockText]
    ELSE IF backend = "ok" THEN [raised |-> FALSE, text |-> BackendText]
    ELSE [raised |-> TRUE, text |-> backend]

GenerateText(mock, backend) ==
    IF mock THEN [raised |-> FALSE, text |-> MockText]
    ELSE IF backend = "ok" THEN [raised |-> FALSE, text |-> BackendText]
    ELSE [raised |-> FALSE, text |-> MockText]

\* ---------------------------------------------------------- model router
\* services/gemini_service.py: TaskType, GeminiModelConfig
CHAT_SIMPLE == "chat_simple"
CHAT_COMPLEX == "chat_complex"
SUMMARIZATION == "summarization"
TRANSLATION == "translation"
REWRITING == "rewriting"
INSIGHTS == "insights"
DOCUMENT_ANALYSIS == "document_analysis"
IMAGE_ANALYSIS == "image_analysis"
IMAGE_GENERATION == "image_generation"
VIDEO_ANALYSIS == "video_analysis"
CODE_GENERATION == "code_generation"
CREATIVE == "creative"
TaskType == {CHAT_SIMPLE, CHAT_COMPLEX, SUMMARIZATION, TRANSLATION, REWRITING,
             INSIGHTS, DOCUMENT_ANALYSIS, IMAGE_ANALYSIS, IMAGE_GENERATION,
             VIDEO_ANALYSIS, CODE_GENERATION, CREATIVE}

ModelConfig(vision, reasoning, best_for) ==
    [supports_vision |-> vision, reasoning |-> reasoning, best_for |-> best_for]

\* GeminiModelConfig.MODELS: the keys in dict (insertion) order, and the
\* configuration of each
ModelNames ==
    <<"gemini-2.0-flash-exp", "gemini-1.5-flash", "gemini-1.5-flash-8b",
      "gemini-1.5-pro", "gemini-pro-vision", "gemini-exp-1206">>

MODELS ==
    ("gemini-2.0-flash-exp" :>
        ModelConfig(TRUE, "medium", {CHAT_SIMPLE, TRANSLATION, REWRITING})) @@
    ("gemini-1.5-flash" :>
        ModelConfig(TRUE, "medium", {CHAT_SIMPLE, TRANSLATION, REWRITING})) @@
    ("gemini-1.5-flash-8b" :>
        ModelConfig(TRUE, "light", {CHAT_SIMPLE, TRANSLATION})) @@
    ("gemini-1.5-pro" :>
        ModelConfig(TRUE, "high",
                    {CHAT_COMPLEX, SUMMARIZATION, INSIGHTS, DOCUMENT_ANALYSIS})) @@
    ("gemini-pro-vision" :>
        ModelConfig(TRUE, "high", {IMAGE_ANALYSIS})) @@
    ("gemini-exp-1206" :>
        ModelConfig(TRUE, "highest",
                    {CHAT_COMPLEX, INSIGHTS, CODE_GENERATION, CREATIVE}))

FALLBACK_ORDER ==
    <<"gemini-2.0-flash-exp", "gemini-1.5-pro", "gemini-1.5-flash",
      "gemini-1.5-flash-8b">>

ImageGenerationModel == "gemini-2.0-flash-exp"
DefaultModel == "gemini-1.5-flash"
LongInput == 10000

\* reasoning tiers in the order light < medium < high < highest
TierRank(r) ==
    CASE r = "light" -> 1 [] r = "medium" -> 2 [] r = "high" -> 3
      [] r = "highest" -> 4

\* suitable_models: the registry models, in registry order, that pass the
\* vision filter and have the task type in best_for
SuitableModels(task_type, requires_vision) ==
    SelectSeq(ModelNames,
              LAMBDA m : /\ ~(requires_vision /\ ~MODELS[m].supports_vision)
                         /\ task_type \in MODELS[m].best_for)

\* the members of FALLBACK_ORDER the fallback loop would return, in order
FallbackCandidates(requires_vision) ==
    SelectSeq(FALLBACK_ORDER,
              LAMBDA f : /\ f \in DOMAIN MODELS
                         /\ ~(requires_vision /\ ~MODELS[f].supports_vision))

\* GeminiModelConfig.get_best_model
GetBestModelUnlistedDefault(task_type, requires_vision, input_length) ==
    IF SuitableModels(task_type, requires_vision) = <<>>
    THEN "gemini-pro"
    ELSE SuitableModels(task_type, requires_vision)[1]

GetBestModelOverrideTextOnly(task_type, requires_vision, input_length) ==
    IF task_type = IMAGE_GENERATION
    THEN IF requires_vision THEN "gemini-pro-vision" ELSE ImageGenerationModel
    ELSE DefaultModel

GetBestModelSkipsFallback(task_type, requires_vision, input_length) ==
    IF task_type = IMAGE_GENERATION THEN ImageGenerationModel
    ELSE IF SuitableModels(task_type, requires_vision) = <<>>
    THEN DefaultModel
    ELSE SuitableModels(task_type, requires_vision)[1]

GetBestModel(task_type, requires_vision, input_length) ==
    IF task_type = IMAGE_GENERATION THEN ImageGenerationModel
    ELSE LET suitable == SuitableModels(task_type, requires_vision)
             fallbacks == FallbackCandidates(requires_vision)
             strong == SelectSeq(suitable,
                          LAMBDA m : MODELS[m].reasoning \in {"high", "highest"})
         IN IF suitable = <<>> /\ fallbacks # <<>> THEN fallbacks[1]
            ELSE IF input_length > LongInput /\ strong # <<>> THEN strong[1]
            ELSE IF suitable # <<>> THEN suitable[1]
            ELSE DefaultModel

\* input lengths on both sides of the long-input threshold
InputLengths == {0, 500, 10000, 10001, 20000}

\* ------------------------------------------------------------------ state
VARIABLES tasks,      \* processing_tasks table: id -> mutable columns
          now,        \* clock: the start time of the latest operation
          pc,         \* per worker: position in its pipeline run
          tid,        \* per worker: task_id argument of the run
          pipe,       \* per worker: variant of the Celery task it runs
          exc,        \* per worker: str(e) of the exception being handled
          pend,       \* per worker: result_data assigned but not committed
          gen,        \* per worker: how this run's generation call went
          resp,       \* last response of the status router
          route,      \* last get_best_model call: its arguments and result
          call,       \* the GeminiService.generate call in progress
          streams,    \* per stream: the generator of generate(stream=True)
          loop,       \* the stream whose coroutine holds the event-loop thread
          order,      \* the streams in the order their fragments were delivered
          cache,      \* _available_models_cache and _models_cache_time
          disc,       \* per caller: its _get_available_image_models call
          clk         \* time.time()

vars == <<tasks, now, pc, tid, pipe, exc, pend, gen, resp, route, call,
          streams, loop, order, cache, disc, clk>>

\* the task engine's variables, and the generation service's
tvars == <<tasks, now, pc, tid, pipe, exc, pend, gen, resp>>
stvars == <<streams, loop, order>>
cvars == <<cache, disc, clk>>
svars == <<route, call, streams, loop, order, cache, disc, clk>>

wvars == <<pc, tid, pipe, exc, pend, gen>>

NoResp == [code |-> 0]
NoExc == [src |-> "none", text |-> None]
NoRoute == [model |-> None]
NoCall == [pc |-> "idle"]

\* the streams one event loop multiplexes; no coroutine runs on the loop
StreamIds == {"s1", "s2"}
Free == "free"
NoStream ==
    [pc |-> "none", model |-> None, calls |-> 0, chunks |-> 0,
     received |-> <<>>, delivered |-> <<>>, error |-> None,
     raised |-> FALSE, yielded |-> FALSE, waits |-> {}]

\* the coroutines calling _get_available_image_models on one event loop
Callers == {"c1", "c2"}
\* the 5 minutes a filled cache is served
CacheTtl == 300
\* time.time() when the service is constructed: seconds since the epoch,
\* more than CacheTtl after the initial _models_cache_time of 0
StartTime == CacheTtl + 1
\* the class attributes; list_of and time_of name the refresh that stored
\* the list and the one that stored the time
EmptyCache ==
    [models |-> <<>>, time |-> 0, list_of |-> 0, time_of |-> 0,
     refreshes |-> 0]
\* a caller not in the function: `calls` counts the discovery calls of its
\* latest call, `seen` and `at` are the cache and the time its check read,
\* `wrote` names the refresh it stored
NoDiscovery ==
    [pc |-> "idle", calls |-> 0, seen |-> EmptyCache, at |-> 0,
     returned |-> <<>>, outcome |-> None, wrote |-> 0]
Raised(src, text) == [src |-> src, text |-> text]

NewTask(rd) ==
    [status |-> PENDING, result_data |-> rd, error_message |-> None,
     completed_at |-> 0]

Init ==
    /\ tasks = [t \in TaskIds |-> NewTask(SubmittedData(t))]
    /\ now = 0
    /\ pc = [w \in Workers |-> "idle"]
    /\ tid = [w \in Workers |-> MissingId]
    /\ pipe = [w \in Workers |-> "none"]
    /\ exc = [w \in Workers |-> NoExc]
    /\ pend = [w \in Workers |-> NullData]
    /\ gen = [w \in Workers |-> "none"]
    /\ resp = NoResp
    /\ route = NoRoute
    /\ call = NoCall
    /\ streams = [s \in StreamIds |-> NoStream]
    /\ loop = Free
    /\ order = <<>>
    /\ cache = EmptyCache
    /\ disc = [c \in Callers |-> NoDiscovery]
    /\ clk = StartTime

\* ------------------------------------------------- pieces of a pipeline run
Running == {"mark", "work", "notify", "handler"}

\* `finally: db.close()` and the end of the Celery task: the worker is free
EndRun(w) ==
    /\ pc' = [pc EXCEPT ![w] = "idle"]
    /\ tid' = [tid EXCEPT ![w] = MissingId]
    /\ pipe' = [pipe EXCEPT ![w] = "none"]
    /\ exc' = [exc EXCEPT ![w] = NoExc]
    /\ pend' = [pend EXCEPT ![w] = NullData]
    /\ gen' = [gen EXCEPT ![w] = "none"]

\* `except Exception as e:` is entered with e raised at src; p is the
\* result_data left pending in the session
EnterHandler(w, src, text, p) ==
    /\ pc' = [pc EXCEPT ![w] = "handler"]
    /\ exc' = [exc EXCEPT ![w] = Raised(src, text)]
    /\ pend' = [pend EXCEPT ![w] = p]
    /\ gen' = [gen EXCEPT ![w] = "none"]
    /\ UNCHANGED <<tid, pipe>>

\* task.status = FAILED; task.error_message = str(e); task.completed_at = now,
\* flushed together with whatever the session still holds pending
FailedRecordNoTimestamp(rec, text, p, t) ==
    [rec EXCEPT !.status = FAILED,
                !.error_message = text,
                !.result_data = IF p = NullData THEN @ ELSE p]

FailedRecord(rec, text, p, t) ==
    [rec EXCEPT !.status = FAILED,
                !.error_message = text,
                !.completed_at = t,
                !.result_data = IF p = NullData THEN @ ELSE p]

\* task.result_data = {...}; task.status = COMPLETED; task.completed_at = now
CompletedRecord(rec, rd, t) ==
    [rec EXCEPT !.status = COMPLETED, !.result_data = rd, !.completed_at = t]

\* ------------------------------------------------------------ worker steps
\* The pool hands a message to a free worker; free workers are alike, so the
\* first free one takes it.
FirstIdle(w) == pc[w] = "idle" /\ (w = "w1" \/ pc["w1"] # "idle")

\* db.query(ProcessingTask).filter(id == task_id).first(); `if not task: return`
StartRun(w, p, t) ==
    /\ FirstIdle(w)
    /\ now < MaxOps
    /\ now' = now + 1
    /\ UNCHANGED <<tasks, resp>>
    /\ UNCHANGED svars
    /\ \/ /\ t \in TaskIds
          /\ pc' = [pc EXCEPT ![w] = "mark"]
          /\ tid' = [tid EXCEPT ![w] = t]
          /\ pipe' = [pipe EXCEPT ![w] = Variant(p)]
          /\ UNCHANGED <<exc, pend, gen>>
       \/ /\ t \notin TaskIds
          /\ EndRun(w)
       \/ \* the query raises: `task` is unbound in the handler, which raises
          EndRun(w)

\* task.status = PROCESSING; db.commit()
MarkProcessing(w) ==
    /\ pc[w] = "mark"
    /\ UNCHANGED <<now, resp>>
    /\ UNCHANGED svars
    /\ \/ /\ tasks' = [tasks EXCEPT ![tid[w]].status = PROCESSING]
          /\ pc' = [pc EXCEPT ![w] = "work"]
          /\ UNCHANGED <<tid, pipe, exc, pend, gen>>
       \/ \E e \in {DbText, SoftText} :
          /\ EnterHandler(w, "mark", e, NullData)
          /\ UNCHANGED tasks

\* what the generation call of the body returned: "none" when the pipeline
\* makes no such call, "ok" for backend text, "degraded" for the mock text,
\* "timeout" for the mock text returned because the soft limit was absorbed
GenKind(mock, backend) ==
    IF mock THEN "degraded"
    ELSE CASE backend = "ok" -> "ok"
           [] backend = "soft_limit" -> "timeout"
           [] OTHER -> "degraded"

\* the COMPLETED commit of the body, with rd the result and g the kind of
\* generation result of this run
Persist(w, rd, g) ==
    \/ /\ tasks' = [tasks EXCEPT ![tid[w]] = CompletedRecord(@, rd, now)]
       /\ pc' = [pc EXCEPT ![w] = "notify"]
       /\ gen' = [gen EXCEPT ![w] = g]
       /\ UNCHANGED <<tid, pipe, exc, pend>>
    \/ \* db.commit() raises; the failed commit rolled the session back
       /\ EnterHandler(w, "persist", DbText, NullData)
       /\ UNCHANGED tasks
    \/ \* the soft limit fires between the assignments and the commit
       /\ EnterHandler(w, "persist", SoftText, rd)
       /\ UNCHANGED tasks

\* document = task.original_document ... db.commit() of the COMPLETED state:
\* download, extraction, generation, persist
Work(w) ==
    /\ pc[w] = "work"
    /\ UNCHANGED <<now, resp>>
    /\ UNCHANGED svars
    /\ \/ \* download_from_s3 raises ClientError
          /\ EnterHandler(w, "download", S3Text, NullData)
          /\ UNCHANGED tasks
       \/ \* pdfplumber raises
          /\ \E e \in ExtractErrs : EnterHandler(w, "extract", e, NullData)
          /\ UNCHANGED tasks
       \/ \* the soft limit fires in the body, outside generate_text's try
          /\ EnterHandler(w, "soft_limit", SoftText, NullData)
          /\ UNCHANGED tasks
       \/ \E text \in DocTexts :
            IF ~CallsGeneration(pipe[w])
            THEN IF ChecksEmptyText(pipe[w]) /\ text = ""
                 THEN /\ EnterHandler(w, "extract", NoTextMsg, NullData)
                      /\ UNCHANGED tasks
                 ELSE Persist(w, Output(NoGen, text), "none")
            ELSE \E mock \in BOOLEAN, b \in BackendOutcomes :
                   LET r == GenerateText(mock, b)
                   IN IF r.raised
                      THEN /\ EnterHandler(w, "generate", r.text, NullData)
                           /\ UNCHANGED tasks
                      ELSE Persist(w, Output(r.text, text), GenKind(mock, b))

\* send_task_complete_email(email=user.email, ..., task_id=str(task.id), ...)
Notify(w) ==
    /\ pc[w] = "notify"
    /\ UNCHANGED <<now, resp, tasks>>
    /\ UNCHANGED svars
    /\ \/ \* the arguments evaluate; the sender returns True or False
          EndRun(w)
       \/ \* evaluating an argument raises: the row refresh after the commit
          \* fails, or the soft limit fires
          \E e \in {DbText, SoftText} :
            IF GuardsNotify(pipe[w])
            THEN EndRun(w)
            ELSE EnterHandler(w, "notify", e, NullData)

\* except Exception as e: task.status = FAILED ... db.commit()
HandlerFailsEveryRecord(w) ==
    /\ pc[w] = "handler"
    /\ UNCHANGED <<now, resp>>
    /\ UNCHANGED svars
    /\ tasks' = [t \in TaskIds |->
                   FailedRecord(tasks[t], exc[w].text, pend[w], now)]
    /\ EndRun(w)

Handler(w) ==
    /\ pc[w] = "handler"
    /\ UNCHANGED <<now, resp>>
    /\ UNCHANGED svars
    /\ \/ /\ tasks' = [tasks EXCEPT
                         ![tid[w]] = FailedRecord(@, exc[w].text, pend[w], now)]
          /\ EndRun(w)
       \/ \* db.commit() raises or the soft limit fires inside the handler:
          \* the exception escapes the task
          /\ UNCHANGED tasks
          /\ EndRun(w)

\* task_time_limit: the pool kills the child process and starts a new one
HardTimeout(w) ==
    /\ pc[w] \in Running
    /\ UNCHANGED <<now, resp, tasks>>
    /\ UNCHANGED svars
    /\ EndRun(w)

\* -------------------------------------------------------- update_task_status
UpdateArgsData == {NullData, EmptyDict, Output(BackendText, "document text")}
UpdateArgsMsg == {None, "", DbText}

\* the assignments of update_task_status to the fetched row
UpdatedRecord(rec, status, rd, msg, t) ==
    [rec EXCEPT
       !.status = status,
       !.result_data = IF TruthyData(rd) THEN rd ELSE @,
       !.error_message = IF TruthyMsg(msg) THEN msg ELSE @,
       !.completed_at = IF status \in Terminal THEN t ELSE @]

UpdateTaskStatus(t, status, rd, msg) ==
    /\ now < MaxOps
    /\ now' = now + 1
    /\ UNCHANGED <<resp, wvars>>
    /\ UNCHANGED svars
    /\ \/ /\ t \in TaskIds
          /\ tasks' = [tasks EXCEPT
                         ![t] = UpdatedRecord(@, status, rd, msg, now + 1)]
       \/ \* no such row, or db.commit() raises
          UNCHANGED tasks

\* ------------------------------------------------------------ status router
Progress(status) ==
    CASE status = PENDING -> 0
      [] status = PROCESSING -> 50
      [] status = COMPLETED -> 100
      [] status = FAILED -> 0

\* TaskStatusResponse of a row
Projection(t) ==
    [code |-> 200, task_id |-> t,
     created_at |-> CreatedAt(t),
     status |-> tasks[t].status,
     result_data |-> tasks[t].result_data,
     error_message |-> tasks[t].error_message,
     completed_at |-> tasks[t].completed_at,
     progress_percentage |-> Progress(tasks[t].status)]

StatusResponse(user, id) ==
    IF id = BadId THEN [code |-> 400]
    ELSE IF id \notin TaskIds THEN [code |-> 404]
    ELSE IF OwnerOf(id) # user THEN [code |-> 403]
    ELSE Projection(id)

GetTaskStatus(user, id) ==
    /\ now < MaxOps
    /\ now' = now + 1
    /\ resp' = StatusResponse(user, id)
    /\ UNCHANGED <<tasks, wvars>>
    /\ UNCHANGED svars

\* query.order_by(created_at.desc()): the rows of S, newest first
RECURSIVE NewestFirst(_)
NewestFirst(S) ==
    IF S = {} THEN <<>>
    ELSE LET t == CHOOSE x \in S : \A y \in S : CreatedAt(y) <= CreatedAt(x)
         IN <<t>> \o NewestFirst(S \ {t})

\* .limit(limit).offset(offset): skip offset rows, then keep limit rows
Page(rows, limit, offset) ==
    LET rest == SubSeq(rows, offset + 1, Len(rows))
    IN SubSeq(rest, 1, IF Len(rest) < limit THEN Len(rest) ELSE limit)

TaskSummary(t) ==
    [id |-> t, status |-> tasks[t].status, created_at |-> CreatedAt(t),
     completed_at |-> tasks[t].completed_at]

ListFilters == {None, "bogus"} \cup TaskStatus
ListLimits == {1, 50}
ListOffsets == {0, 1}

ListResponse(user, filter, limit, offset) ==
    IF filter # None /\ filter \notin TaskStatus THEN [code |-> 400]
    ELSE LET rows == NewestFirst({t \in TaskIds :
                        /\ OwnerOf(t) = user
                        /\ filter # None => tasks[t].status = filter})
             page == Page(rows, limit, offset)
         IN [code |-> 200,
             tasks |-> [i \in 1..Len(page) |-> TaskSummary(page[i])],
             total |-> Len(page)]

ListUserTasks(user, filter, limit, offset) ==
    /\ now < MaxOps
    /\ now' = now + 1
    /\ resp' = ListResponse(user, filter, limit, offset)
    /\ UNCHANGED <<tasks, wvars>>
    /\ UNCHANGED svars

\* ----------------------------------------------------- generation service
\* GeminiService.generate in non-streaming mode and _fallback_generate.
\* What one model.generate_content call gives: a response whose text is
\* non-empty; a response whose text is "" with or without a finish_reason; a
\* response without a valid part, whose `text` accessor raises ValueError; or
\* an exception of the call itself.
ResponseOutcomes == {"text", "empty", "no_reason", "blocked", "raise"}
Responses == {"text", "empty", "no_reason", "blocked"}
CallErrors == {"429 quota exceeded", "connection reset"}
TextAccessorError == "response.text needs a valid Part, none was returned"

\* response.text of the model's answer
TextOf(model) == "answer of " \o model
BlockedPlaceholder == "Response was blocked or empty. Reason: FinishReason.SAFETY"
EmptyPlaceholder == "No response generated. Please try again."
Placeholders == {BlockedPlaceholder, EmptyPlaceholder}
Apology(error) ==
    "I apologize, but I couldn't generate a response. Please try again. (Error: "
       \o error \o ")"

\* arguments of generate: a task type whose model heads FALLBACK_ORDER, one
\* whose model is inside it and one whose model is not in it; a short and a
\* long prompt
GenTaskTypes == {CHAT_SIMPLE, CHAT_COMPLEX, IMAGE_ANALYSIS}
GenInputLengths == {500, 10001}

\* the outcomes of one attempt and, when it raised, str(e)
AttemptResults ==
    {[outcome |-> o, error |-> None] : o \in {"text", "empty", "no_reason"}}
    \cup {[outcome |-> "blocked", error |-> TextAccessorError]}
    \cup {[outcome |-> "raise", error |-> e] : e \in CallErrors}

Attempt(model, content, r) ==
    [model |-> model, content |-> content, outcome |-> r.outcome,
     error |-> r.error]

\* generate(prompt, task_type, images=..., stream=False) up to the backend
\* call: the model is selected and the content built
Generate(task_type, images, input_length) ==
    /\ call.pc = "idle"
    /\ route' = [task_type |-> task_type, requires_vision |-> images,
                 input_length |-> input_length,
                 model |-> GetBestModel(task_type, images, input_length)]
    /\ call' = [pc |-> "primary",
                model |-> GetBestModel(task_type, images, input_length),
                content |-> [prompt |-> input_length, images |-> images],
                attempts |-> <<>>, idx |-> 0, error |-> None,
                result |-> None]
    /\ UNCHANGED <<tvars, stvars, cvars>>

\* the try block of generate: one call, then the response is read
PrimaryCall(r) ==
    /\ call.pc = "primary"
    /\ LET tried == Append(call.attempts, Attempt(call.model, call.content, r))
       IN call' =
            CASE r.outcome = "text" ->
                   [call EXCEPT !.pc = "done", !.attempts = tried,
                                !.result = TextOf(call.model)]
              [] r.outcome = "empty" ->
                   [call EXCEPT !.pc = "done", !.attempts = tried,
                                !.result = BlockedPlaceholder]
              [] r.outcome = "no_reason" ->
                   [call EXCEPT !.pc = "done", !.attempts = tried,
                                !.result = EmptyPlaceholder]
              [] OTHER ->
                   \* except Exception as e: _fallback_generate(..., str(e))
                   [call EXCEPT !.pc = "fallback", !.attempts = tried,
                                !.idx = 1, !.error = r.error]
    /\ UNCHANGED <<tvars, route, stvars, cvars>>

\* the cascade ends without a text: the apology with the `error` argument
FallbackExhausted(c, tried) ==
    [c EXCEPT !.pc = "done", !.attempts = tried, !.result = Apology(c.error)]

\* one iteration of the loop of _fallback_generate
FallbackCall(r) ==
    /\ call.pc = "fallback"
    /\ LET model == FALLBACK_ORDER[call.idx]
           tried == Append(call.attempts, Attempt(model, call.content, r))
       IN call' =
            IF r.outcome = "text"
            THEN [call EXCEPT !.pc = "done", !.attempts = tried,
                              !.result = TextOf(model)]
            ELSE IF call.idx < Len(FALLBACK_ORDER)
            THEN [call EXCEPT !.attempts = tried, !.idx = @ + 1]
            ELSE FallbackExhausted(call, tried)
    /\ UNCHANGED <<tvars, route, stvars, cvars>>

\* ---------------------------------------------------- streaming generation
\* GeminiService.generate(stream=True) and _stream_response, consumed by an
\* `async for` such as ai_chat's. The coroutines of all streams share one
\* event-loop thread: `loop` names the stream whose coroutine runs on it, and
\* another coroutine runs only when it is Free, which a running coroutine
\* makes it at an await that suspends.
StreamErrors == CallErrors
StreamTaskTypes == {CHAT_SIMPLE, CHAT_COMPLEX}
StreamInputLengths == {500}
\* what the next step of `for chunk in response` gives: a chunk with text, a
\* chunk whose text is empty, an exception, or the end of the response
ChunkOutcomes == {"text", "empty", "raise", "end"}
ChunkText(n) == "chunk " \o ToString(n)
ErrorFragment(error) == "Error: " \o error
\* a blocking wait on the backend and the thread that sits in it
Wait(what, thread) == [what |-> what, thread |-> thread]

\* generate(..., stream=True): the model is selected and the content built;
\* stream_gen() is returned without running any of its body
GenerateStream(s, task_type, input_length) ==
    /\ loop = Free
    /\ streams[s].pc = "none"
    /\ route' = [task_type |-> task_type, requires_vision |-> FALSE,
                 input_length |-> input_length,
                 model |-> GetBestModel(task_type, FALSE, input_length)]
    /\ streams' = [streams EXCEPT ![s] =
          [@ EXCEPT !.pc = "created",
                    !.model = GetBestModel(task_type, FALSE, input_length)]]
    /\ UNCHANGED <<tvars, call, loop, order, cvars>>

\* the consumer asks for the first fragment: _stream_response runs up to
\* `await asyncio.to_thread(sync_stream)`, where a worker thread makes the
\* call and the coroutine is suspended
StreamStart(s) ==
    /\ loop = Free
    /\ streams[s].pc = "created"
    /\ streams' = [streams EXCEPT ![s] =
          [@ EXCEPT !.pc = "opening", !.calls = @ + 1,
                    !.waits = @ \cup {Wait("open", "worker")}]]
    /\ UNCHANGED <<tvars, route, call, loop, order, cvars>>

\* a generator without the except clause: the exception reaches the consumer
StreamFailRaises(st, e) ==
    [st EXCEPT !.pc = "ended", !.error = e, !.raised = TRUE]

\* except Exception as e: the error is printed, one fragment with str(e) is
\* yielded, and the generator ends when it is resumed
StreamFail(st, e) ==
    [st EXCEPT !.pc = "ended", !.error = e,
               !.delivered = Append(@, ErrorFragment(e))]

\* the worker thread's call returned (e = None) or raised e; the coroutine
\* is resumed on the event loop
StreamOpened(s, e) ==
    /\ loop = Free
    /\ streams[s].pc = "opening"
    /\ IF e = None
       THEN /\ streams' = [streams EXCEPT ![s].pc = "reading"]
            /\ loop' = s
            /\ order' = order
       ELSE /\ streams' = [streams EXCEPT ![s] = StreamFail(@, e)]
            /\ loop' = Free
            /\ order' = Append(order, s)
    /\ UNCHANGED <<tvars, route, call, cvars>>

\* one step of `for chunk in response`, a synchronous iteration made by the
\* coroutine itself: the first chunk came with the opening call, every
\* further one is waited for on the thread the coroutine runs on
StreamRead(s, o, e) ==
    /\ loop = s
    /\ streams[s].pc = "reading"
    /\ LET st == streams[s]
           waited == IF st.chunks = 0 THEN st.waits
                     ELSE st.waits \cup {Wait("fragment", "loop")}
       IN CASE o = "text" ->
                 \* yield chunk.text
                 /\ st.chunks < MaxFragments
                 /\ streams' = [streams EXCEPT ![s] =
                       [st EXCEPT !.pc = "delivered", !.chunks = @ + 1,
                                  !.waits = waited, !.yielded = FALSE,
                                  !.received =
                                      Append(@, ChunkText(st.chunks + 1)),
                                  !.delivered =
                                      Append(@, ChunkText(st.chunks + 1))]]
                 /\ loop' = s
                 /\ order' = Append(order, s)
            [] o = "empty" ->
                 \* `if chunk.text` is false: on to the next chunk
                 /\ st.chunks < MaxFragments
                 /\ streams' = [streams EXCEPT ![s] =
                       [st EXCEPT !.chunks = @ + 1, !.waits = waited]]
                 /\ loop' = s
                 /\ order' = order
            [] o = "raise" ->
                 /\ streams' = [streams EXCEPT ![s] =
                       StreamFail([st EXCEPT !.waits = waited], e)]
                 /\ loop' = Free
                 /\ order' = Append(order, s)
            [] OTHER ->
                 \* the response is exhausted: the generator ends
                 /\ streams' = [streams EXCEPT ![s] =
                       [st EXCEPT !.pc = "ended", !.waits = waited]]
                 /\ loop' = Free
                 /\ order' = order
    /\ UNCHANGED <<tvars, route, call, cvars>>

\* a generator without the sleep(0): it goes on to the next chunk at once
StreamResumeNoYield(s) ==
    /\ loop = s
    /\ streams[s].pc = "delivered"
    /\ streams' = [streams EXCEPT ![s].pc = "reading"]
    /\ UNCHANGED <<tvars, route, call, loop, order, cvars>>

\* the consumer asks for the next fragment: the generator is resumed after
\* its yield, at `await asyncio.sleep(0)`, which hands the thread to the loop
StreamResume(s) ==
    /\ loop = s
    /\ streams[s].pc = "delivered"
    /\ streams' = [streams EXCEPT ![s] =
          [@ EXCEPT !.pc = "sleeping", !.yielded = TRUE]]
    /\ loop' = Free
    /\ UNCHANGED <<tvars, route, call, order, cvars>>

\* the loop schedules the coroutine again after its sleep(0)
StreamWake(s) ==
    /\ loop = Free
    /\ streams[s].pc = "sleeping"
    /\ streams' = [streams EXCEPT ![s].pc = "reading"]
    /\ loop' = s
    /\ UNCHANGED <<tvars, route, call, order, cvars>>

\* -------------------------------------------------------- image-model cache
\* GeminiService._get_available_image_models, called by coroutines of one
\* event loop: the code between two awaits runs without interruption.
ImagenModels == {"imagen-3.0-generate-001"}
GeminiImageModels == {"gemini-1.5-flash", "gemini-1.5-pro", "gemini-2.0-flash-exp"}
FallbackImageModels == <<"gemini-2.0-flash-exp", "gemini-1.5-flash", "gemini-1.5-pro">>

\* what genai.list_models lists, in its order
Catalogs ==
    { <<>>,
      <<"text-embedding-004">>,
      <<"gemini-1.5-flash", "text-embedding-004", "imagen-3.0-generate-001">>,
      <<"gemini-1.5-pro", "gemini-2.0-flash-exp">> }

\* one discovery: the models iterated, and whether the listing then raised
\* instead of ending
DiscoveryOutcomes ==
    {[listed |-> c, raises |-> FALSE] : c \in Catalogs}
    \cup {[listed |-> <<>>, raises |-> TRUE],
          [listed |-> <<"gemini-1.5-flash">>, raises |-> TRUE]}

\* the loop over the listing: imagen models go to the front, gemini flash
\* and pro models to the back, the others are skipped
RECURSIVE Collect(_, _)
Collect(listed, image_models) ==
    IF listed = <<>> THEN image_models
    ELSE LET model_name == Head(listed)
         IN Collect(Tail(listed),
                    IF model_name \in ImagenModels
                    THEN <<model_name>> \o image_models
                    ELSE IF model_name \in GeminiImageModels
                    THEN Append(image_models, model_name)
                    ELSE image_models)

\* image_models after the try block and the `if not image_models`
Discovered(o) ==
    IF Collect(o.listed, <<>>) = <<>> THEN FallbackImageModels
    ELSE Collect(o.listed, <<>>)

\* the cached list is non-empty and less than 5 minutes old
Fresh(cch, t) == cch.models # <<>> /\ t - cch.time < CacheTtl

\* a refresh interrupted between its two assignments: only the time is set
StoreTimeOnly(cch, image_models, t) ==
    [cch EXCEPT !.time = t, !.time_of = cch.refreshes + 1,
                !.refreshes = @ + 1]

\* the two assignments that end a refresh, with no await between them
Store(cch, image_models, t) ==
    [models |-> image_models, time |-> t, list_of |-> cch.refreshes + 1,
     time_of |-> cch.refreshes + 1, refreshes |-> cch.refreshes + 1]

\* a call up to its return of the cached list or to its suspension in
\* `await asyncio.to_thread(genai.list_models)`
CacheCheck(c) ==
    /\ disc[c].pc \in {"idle", "returned"}
    /\ disc' = [disc EXCEPT ![c] =
          IF Fresh(cache, clk)
          THEN [NoDiscovery EXCEPT !.pc = "returned", !.seen = cache,
                                   !.at = clk, !.returned = cache.models]
          ELSE [NoDiscovery EXCEPT !.pc = "discovering", !.calls = 1,
                                   !.seen = cache, !.at = clk]]
    /\ UNCHANGED <<tvars, route, call, stvars, cache, clk>>

\* the rest of the call, from the resumption to the return
CacheRefresh(c, o) ==
    /\ disc[c].pc = "discovering"
    /\ cache' = Store(cache, Discovered(o), clk)
    /\ disc' = [disc EXCEPT ![c] =
          [@ EXCEPT !.pc = "returned", !.returned = Discovered(o),
                    !.outcome = o, !.wrote = cache.refreshes + 1]]
    /\ UNCHANGED <<tvars, route, call, stvars, clk>>

\* time passes: just less than the 5 minutes, or the 5 minutes
TickSizes == {CacheTtl - 1, CacheTtl}
Tick(d) ==
    /\ clk + d <= StartTime + MaxTicks * CacheTtl
    /\ clk' = clk + d
    /\ UNCHANGED <<tvars, route, call, stvars, cache, disc>>

\* ------------------------------------------------------------ model router
\* a call of get_best_model, as GeminiService.generate makes it
Route(task_type, requires_vision, input_length) ==
    /\ route' = [task_type |-> task_type, requires_vision |-> requires_vision,
                 input_length |-> input_length,
                 model |-> GetBestModel(task_type, requires_vision,
                                        input_length)]
    /\ UNCHANGED <<tvars, call, stvars, cvars>>

\* ---------------------------------------------------------- specification
Next ==
    \/ \E w \in Workers, p \in Pipelines, t \in TaskIds \cup {MissingId} :
          StartRun(w, p, t)
    \/ \E w \in Workers : MarkProcessing(w)
    \/ \E w \in Workers : Work(w)
    \/ \E w \in Workers : Notify(w)
    \/ \E w \in Workers : Handler(w)
    \/ \E w \in Workers : HardTimeout(w)
    \/ \E t \in TaskIds \cup {MissingId}, status \in TaskStatus,
          rd \in UpdateArgsData, msg \in UpdateArgsMsg :
          UpdateTaskStatus(t, status, rd, msg)
    \/ \E user \in Users, id \in TaskIds \cup {MissingId, BadId} :
          GetTaskStatus(user, id)
    \/ \E user \in Users, filter \in ListFilters, limit \in ListLimits,
          offset \in ListOffsets :
          ListUserTasks(user, filter, limit, offset)

Spec == Init /\ [][Next]_vars

\* The worker pipelines and the status router alone: update_task_status is a
\* helper that no pipeline calls.
PipelineNext ==
    \/ \E w \in Workers, p \in Pipelines, t \in TaskIds \cup {MissingId} :
          StartRun(w, p, t)
    \/ \E w \in Workers : MarkProcessing(w)
    \/ \E w \in Workers : Work(w)
    \/ \E w \in Workers : Notify(w)
    \/ \E w \in Workers : Handler(w)
    \/ \E w \in Workers : HardTimeout(w)
    \/ \E user \in Users, id \in TaskIds \cup {MissingId, BadId} :
          GetTaskStatus(user, id)
    \/ \E user \in Users, filter \in ListFilters, limit \in ListLimits,
          offset \in ListOffsets :
          ListUserTasks(user, filter, limit, offset)

PipelineSpec == Init /\ [][PipelineNext]_vars

\* get_best_model alone, over every task type, both vision flags and the
\* input lengths
RouterNext ==
    \E task_type \in TaskType, requires_vision \in BOOLEAN,
       input_length \in InputLengths :
       Route(task_type, requires_vision, input_length)

RouterSpec == Init /\ [][RouterNext]_vars

\* GeminiService.generate without streaming: selection, primary call, cascade
GenNext ==
    \/ \E task_type \in GenTaskTypes, images \in BOOLEAN,
          input_length \in GenInputLengths :
          Generate(task_type, images, input_length)
    \/ \E r \in AttemptResults : PrimaryCall(r)
    \/ \E r \in AttemptResults : FallbackCall(r)

GenSpec == Init /\ [][GenNext]_vars

\* GeminiService.generate with streaming: two streams consumed on one loop
StreamNext ==
    \/ \E s \in StreamIds, task_type \in StreamTaskTypes,
          input_length \in StreamInputLengths :
          GenerateStream(s, task_type, input_length)
    \/ \E s \in StreamIds : StreamStart(s)
    \/ \E s \in StreamIds, e \in StreamErrors \cup {None} : StreamOpened(s, e)
    \/ \E s \in StreamIds, o \in ChunkOutcomes, e \in StreamErrors :
          StreamRead(s, o, e)
    \/ \E s \in StreamIds : StreamResume(s)
    \/ \E s \in StreamIds : StreamWake(s)

StreamSpec == Init /\ [][StreamNext]_vars

\* _get_available_image_models under two concurrent callers
CacheNext ==
    \/ \E c \in Callers : CacheCheck(c)
    \/ \E c \in Callers, o \in DiscoveryOutcomes : CacheRefresh(c, o)
    \/ \E d \in TickSizes : Tick(d)

CacheSpec == Init /\ [][CacheNext]_vars

\* ==================================================================== claims

\* C1: the status of a record only ever steps PENDING -> PROCESSING,
\* PROCESSING -> COMPLETED or PROCESSING -> FAILED.
C1_StatusMonotone ==
    [][\A t \in TaskIds :
         tasks'[t].status # tasks[t].status =>
           <<tasks[t].status, tasks'[t].status>> \in
              {<<PENDING, PROCESSING>>, <<PROCESSING, COMPLETED>>,
               <<PROCESSING, FAILED>>}]_vars

\* C2: no two workers execute the pipeline body for the same record at once:
\* of the workers that started on it, one claimed it and the others stopped.
C2_ClaimExclusive ==
    \A w1, w2 \in Workers :
        (w1 # w2 /\ tid[w1] = tid[w2] /\ tid[w1] \in TaskIds) =>
            ~(pc[w1] \in {"work", "notify"} /\ pc[w2] \in {"work", "notify"})

\* C3: a record that is COMPLETED or FAILED is changed by no later step.
C3_TerminalImmutable ==
    [][\A t \in TaskIds :
         tasks[t].status \in Terminal => tasks'[t] = tasks[t]]_vars

\* C4: a COMPLETED record has a result and no error, a FAILED record has an
\* error and no result.
C4_ExactlyOneOfResultError ==
    \A t \in TaskIds :
        /\ tasks[t].status = COMPLETED =>
              tasks[t].result_data # NullData /\ tasks[t].error_message = None
        /\ tasks[t].status = FAILED =>
              tasks[t].error_message # None /\ tasks[t].result_data = NullData

\* C5: when the hard time limit ends a run whose record is PROCESSING, the
\* record becomes FAILED with an error message instead of staying PROCESSING.
C5_HardLimitForcesFailed ==
    [][\A w \in Workers :
         (HardTimeout(w) /\ tasks[tid[w]].status = PROCESSING) =>
            /\ tasks'[tid[w]].status = FAILED
            /\ TruthyMsg(tasks'[tid[w]].error_message)]_vars

C7_NotifyFailureKeepsRecord ==
    [][\A w \in Workers :
         (pc[w] = "handler" /\ exc[w].src = "notify" /\ pc'[w] = "idle") =>
            /\ tasks'[tid[w]].status = tasks[tid[w]].status
            /\ tasks'[tid[w]].result_data = tasks[tid[w]].result_data
            /\ tasks'[tid[w]].error_message = tasks[tid[w]].error_message]_vars

\* C8: no record is COMPLETED with the output of a document that yielded no
\* text.
C8_NoTextNeverCompleted ==
    \A t \in TaskIds :
        (tasks[t].status = COMPLETED /\ tasks[t].result_data.kind = "output")
            => tasks[t].result_data.full_text # ""

\* C9: a failed generation call never takes the body to the except handler;
\* the body commits COMPLETED with the non-empty mock text as the generated
\* text of the result.
C9_GenerationFailureAbsorbed ==
    [][\A w \in Workers :
         pc[w] = "work" =>
            /\ pc'[w] = "handler" => exc'[w].src # "generate"
            /\ (pc'[w] = "notify" /\ gen'[w] \in {"degraded", "timeout"}) =>
                  /\ tasks'[tid[w]].status = COMPLETED
                  /\ tasks'[tid[w]].result_data.kind = "output"
                  /\ tasks'[tid[w]].result_data.text = MockText
                  /\ tasks'[tid[w]].result_data.text # ""
                  /\ tasks'[tid[w]].error_message =
                        tasks[tid[w]].error_message]_vars

\* a run whose generation call failed has just committed COMPLETED
C9_Witness ==
    \E w \in Workers :
        /\ pc[w] = "notify"
        /\ gen[w] = "degraded"
        /\ tasks[tid[w]].status = COMPLETED
        /\ tasks[tid[w]].result_data.kind = "output"
        /\ tasks[tid[w]].result_data.text = MockText

\* C10: a poll that returns a FAILED task carries a non-empty error_message,
\* one that returns a COMPLETED task a non-empty result_data.
C10_PollNonEmpty ==
    (resp.code = 200 /\ "task_id" \in DOMAIN resp) =>
        /\ resp.status = FAILED => TruthyMsg(resp.error_message)
        /\ resp.status = COMPLETED => TruthyData(resp.result_data)

\* C11: a poll changes no record, and after a poll by the owner has returned
\* a task COMPLETED or FAILED, the response a poll of that task returns in
\* any later state has the same status, result_data and error_message.
C11_TerminalPollsAgree ==
    [][/\ \A user \in Users, id \in TaskIds \cup {MissingId, BadId} :
             GetTaskStatus(user, id) => tasks' = tasks
       /\ (/\ resp.code = 200
           /\ "task_id" \in DOMAIN resp
           /\ resp.status \in Terminal) =>
             LET later == StatusResponse(OwnerOf(resp.task_id), resp.task_id)'
             IN /\ later.status = resp.status
                /\ later.result_data = resp.result_data
                /\ later.error_message = resp.error_message]_vars

\* C12: a poll of an id that no record has answers NotFound, a poll of a
\* record of another user answers Forbidden with no field of the record, and
\* any other poll answers the projection of the record.
C12_PollOutcomes ==
    [][\A user \in Users, id \in TaskIds \cup {MissingId, BadId} :
          GetTaskStatus(user, id) =>
             /\ id \notin TaskIds => resp' = [code |-> 404]
             /\ (id \in TaskIds /\ OwnerOf(id) # user) => resp' = [code |-> 403]
             /\ (id \in TaskIds /\ OwnerOf(id) = user) =>
                   resp' = Projection(id)]_vars

\* C13: when requires_vision is true, the model get_best_model returns is a
\* registry model that supports vision.
C13_VisionModelSupportsVision ==
    (route.model # None /\ route.requires_vision) =>
        /\ route.model \in DOMAIN MODELS
        /\ MODELS[route.model].supports_vision

\* a vision request of a task type that no registry model lists was routed
\* through the fallback order
C13_Witness ==
    /\ route.model # None
    /\ route.requires_vision
    /\ route.task_type = VIDEO_ANALYSIS
    /\ SuitableModels(route.task_type, TRUE) = <<>>
    /\ route.model = FALLBACK_ORDER[1]

\* C14: for IMAGE_GENERATION get_best_model returns the designated model,
\* whatever requires_vision and the input length are.
C14_ImageGenerationOverride ==
    (route.model # None /\ route.task_type = IMAGE_GENERATION) =>
        route.model = ImageGenerationModel

\* an IMAGE_GENERATION request with images and a long input was routed
C14_Witness ==
    /\ route.model # None
    /\ route.task_type = IMAGE_GENERATION
    /\ route.requires_vision
    /\ route.input_length > LongInput
    /\ route.model = ImageGenerationModel

\* C15: with more than one candidate, an input longer than 10,000 characters
\* gets the candidate of the highest reasoning tier, and a shorter one the
\* first candidate in registry order.
C15_LongInputHighestTier ==
    (route.model # None) =>
        LET suitable == SuitableModels(route.task_type, route.requires_vision)
        IN Len(suitable) > 1 =>
             IF route.input_length > LongInput
             THEN /\ route.model \in DOMAIN MODELS
                  /\ \A i \in 1..Len(suitable) :
                        TierRank(MODELS[suitable[i]].reasoning) <=
                           TierRank(MODELS[route.model].reasoning)
             ELSE route.model = suitable[1]

\* C16: after the primary call has failed, the cascade attempts models of
\* FALLBACK_ORDER in list order, each at most once, with the content of the
\* primary call, and no attempt is made on the model whose call just failed.
C16_CascadeSkipsFailedModel ==
    (call.pc # "idle" /\ Len(call.attempts) > 1) =>
        /\ \A i \in 2..Len(call.attempts) :
              /\ call.attempts[i].content = call.attempts[1].content
              /\ call.attempts[i].model # call.attempts[i - 1].model
        /\ \A i, j \in 2..Len(call.attempts) :
              i < j =>
                \E a, b \in 1..Len(FALLBACK_ORDER) :
                   /\ a < b
                   /\ FALLBACK_ORDER[a] = call.attempts[i].model
                   /\ FALLBACK_ORDER[b] = call.attempts[j].model

\* C17: once a fallback model has returned a response, no later model is
\* attempted and the text of that response is the result of generate.
C17_CascadeStopsAtResponse ==
    (call.pc # "idle") =>
        \A i \in 2..Len(call.attempts) :
            call.attempts[i].outcome \in Responses =>
                /\ i = Len(call.attempts)
                /\ call.pc = "done"
                /\ call.result = TextOf(call.attempts[i].model)

\* C18: when the primary call and every fallback call have failed, generate
\* returns a non-empty apology that embeds the error of the last failed call.
C18_ApologyEmbedsLastError ==
    (/\ call.pc = "done"
     /\ Len(call.attempts) = 1 + Len(FALLBACK_ORDER)
     /\ \A i \in 1..Len(call.attempts) : call.attempts[i].error # None) =>
        /\ call.result # None
        /\ call.result # ""
        /\ call.result = Apology(call.attempts[Len(call.attempts)].error)

\* C19: when the primary call returns an empty or blocked response, generate
\* returns a placeholder after that one call and the cascade is not entered.
C19_EmptyResponseIsResult ==
    (/\ call.pc \notin {"idle", "primary"}
     /\ call.attempts[1].outcome \in {"empty", "no_reason", "blocked"}) =>
        /\ call.pc = "done"
        /\ Len(call.attempts) = 1
        /\ call.result \in Placeholders

\* C20: when the soft time limit fires inside the generation call of a
\* pipeline body, the record is not COMPLETED by that body: it is FAILED with
\* the time limit's text as error_message.
C20_TimeoutInGenerationFails ==
    [][\A w \in Workers :
         (pc[w] = "work" /\ pc'[w] = "notify" /\ gen'[w] = "timeout") =>
            /\ tasks'[tid[w]].status = FAILED
            /\ tasks'[tid[w]].error_message = SoftText]_vars

\* C21: a record that is PENDING, PROCESSING or FAILED has null result_data.
C21_ResultOnlyWhenCompleted ==
    \A t \in TaskIds :
        tasks[t].status # COMPLETED => tasks[t].result_data = NullData

\* C22: when a run ends although the write of its terminal state failed, the
\* record not being terminal, the runtime starts another attempt for the
\* same task id.
C22_FailedWriteIsRetried ==
    [][\A w \in Workers :
         (/\ pc[w] = "handler"
          /\ pc'[w] # "handler"
          /\ tasks'[tid[w]].status \notin Terminal) =>
            /\ pc'[w] = "mark"
            /\ tid'[w] = tid[w]]_vars

\* C27: when no registry model lists the task type, get_best_model returns
\* the first member of FALLBACK_ORDER that is in the registry and passes the
\* vision filter, and the hard-coded default only when there is no such
\* member.
C27_FallbackOrderFirstSurvivor ==
    (/\ route.model # None
     /\ \A m \in DOMAIN MODELS : route.task_type \notin MODELS[m].best_for) =>
        LET Survives(i) ==
               /\ FALLBACK_ORDER[i] \in DOMAIN MODELS
               /\ route.requires_vision =>
                     MODELS[FALLBACK_ORDER[i]].supports_vision
        IN IF \E i \in 1..Len(FALLBACK_ORDER) : Survives(i)
           THEN \E i \in 1..Len(FALLBACK_ORDER) :
                   /\ Survives(i)
                   /\ \A j \in 1..(i - 1) : ~Survives(j)
                   /\ route.model = FALLBACK_ORDER[i]
           ELSE route.model = DefaultModel

\* a text request of a task type that no registry model lists, with a long
\* input, got the head of FALLBACK_ORDER
C27_Witness ==
    /\ route.model # None
    /\ route.task_type = VIDEO_ANALYSIS
    /\ ~route.requires_vision
    /\ route.input_length > LongInput
    /\ route.model = "gemini-2.0-flash-exp"

\* C28: a step of a pipeline run changes no record but the one of its task
\* id, and a run that finds no record changes no record at all.
C28_RunChangesOnlyItsRecord ==
    [][/\ \A w \in Workers :
             pc'[w] # pc[w] =>
                \A t \in TaskIds :
                   (t # tid[w] /\ t # tid'[w]) => tasks'[t] = tasks[t]
       /\ \A w \in Workers, p \in Pipelines :
             StartRun(w, p, MissingId) => tasks' = tasks]_vars

\* a run for t1 has failed and been recorded while t2 is as it was submitted
C28_Witness ==
    /\ tasks["t1"].status = FAILED
    /\ tasks["t1"].error_message = S3Text
    /\ tasks["t2"] = NewTask(SubmittedData("t2"))
    /\ \A w \in Workers : pc[w] = "idle"

\* C29: completed_at is null while a record is PENDING or PROCESSING and
\* non-null once it is COMPLETED or FAILED.
C29_CompletedAtIffTerminal ==
    \A t \in TaskIds :
        /\ tasks[t].status \in {PENDING, PROCESSING} =>
              tasks[t].completed_at = 0
        /\ tasks[t].status \in Terminal => tasks[t].completed_at # 0

\* C23: every wait of a generation on the backend, the opening of a stream
\* and the wait for each further fragment included, sits on a worker thread
\* and never on the event-loop thread.
C23_BackendWaitsOffLoop ==
    \A s \in StreamIds : \A w \in streams[s].waits : w.thread = "worker"

\* C24: a stream makes no backend call before it is consumed and exactly one
\* once consumption started, and between two consecutive fragments it
\* delivers, the producer has handed the thread back to the scheduler.
C24_OneCallAndYieldBetweenFragments ==
    [][\A s \in StreamIds :
         /\ streams'[s].pc \in {"none", "created"} => streams'[s].calls = 0
         /\ streams'[s].pc \notin {"none", "created"} => streams'[s].calls = 1
         /\ streams'[s].pc = "sleeping" => loop' # s
         /\ (Len(streams'[s].delivered) > Len(streams[s].delivered)
               /\ Len(streams[s].delivered) >= 1)
              => streams[s].yielded]_vars

\* two streams interleave their fragments and one of them is consumed to
\* its end
C24_Witness ==
    /\ Len(order) >= 3
    /\ order[1] = "s1" /\ order[2] = "s2" /\ order[3] = "s1"
    /\ streams["s1"].pc = "ended"
    /\ streams["s1"].delivered = <<ChunkText(1), ChunkText(2)>>

\* C30: a stream whose backend failed, at the opening or while it was read,
\* raises nothing to its consumer and makes no further call: it has delivered
\* the fragments received so far, then the one fragment "Error: <message>",
\* and has ended.
C30_StreamErrorIsLastFragment ==
    \A s \in StreamIds :
       /\ ~streams[s].raised
       /\ streams[s].error # None =>
             /\ streams[s].pc = "ended"
             /\ streams[s].calls = 1
             /\ streams[s].delivered =
                   Append(streams[s].received,
                          ErrorFragment(streams[s].error))
       /\ (streams[s].pc = "ended" /\ streams[s].error = None) =>
             streams[s].delivered = streams[s].received

\* the second chunk of a stream failed after the first was delivered
C30_Witness ==
    /\ streams["s1"].pc = "ended"
    /\ streams["s1"].delivered =
          <<ChunkText(1), ErrorFragment("connection reset")>>

\* C25: under concurrent callers the cache is never seen half refreshed: its
\* list and its timestamp come from the same refresh, an empty list never
\* goes with a set timestamp, and after concurrent refreshes the cache holds
\* what exactly one of the refreshers returned.
C25_CacheNeverPartiallyRefreshed ==
    LET Whole(cch) ==
          /\ cch.list_of = cch.time_of
          /\ cch.models = <<>> => cch.time = 0
    IN /\ Whole(cache)
       /\ \A c \in Callers : Whole(disc[c].seen)
       /\ cache.refreshes > 0 =>
             \E o \in DiscoveryOutcomes : cache.models = Discovered(o)
       /\ \A c \in Callers :
             (disc[c].pc = "returned" /\ disc[c].calls = 1
               /\ disc[c].wrote = cache.list_of)
              => (cache.models = disc[c].returned /\ cache.time >= disc[c].at)

\* both callers found the cache empty, both discovered, with different
\* results, and both stored
C25_Witness ==
    /\ \A c \in Callers :
          /\ disc[c].pc = "returned" /\ disc[c].calls = 1
          /\ disc[c].seen = EmptyCache
    /\ disc["c1"].returned # disc["c2"].returned
    /\ cache.refreshes = 2
    /\ cache.models = disc["c2"].returned

\* C26: a call returns the cached list without discovery when the cache was
\* filled less than 300 s ago; otherwise it makes one discovery call, stores
\* and returns what it found, or the hard-coded list when discovery raised or
\* found no model; it never returns an empty list.
C26_CacheHitOrOneDiscovery ==
    \A c \in Callers :
       disc[c].pc = "returned" =>
          /\ disc[c].returned # <<>>
          /\ disc[c].calls = 0 <=> Fresh(disc[c].seen, disc[c].at)
          /\ disc[c].calls = 0 => disc[c].returned = disc[c].seen.models
          /\ disc[c].calls = 1 =>
                /\ disc[c].returned =
                      IF disc[c].outcome.raises
                         \/ Collect(disc[c].outcome.listed, <<>>) = <<>>
                      THEN FallbackImageModels
                      ELSE Collect(disc[c].outcome.listed, <<>>)
                /\ disc[c].wrote = cache.list_of
                      => cache.models = disc[c].returned

====
